---- MODULE Spec2Model ----
(***************************************************************************)
(* Speaker-name attribution of api_cabildo.py: the cession patterns        *)
(* (PATRONES_CESION), the name validator (_es_nombre_real), the speaker    *)
(* mapper (extract_speaker_names_from_entities), the transcript formatter  *)
(* (format_transcript_with_speakers), build_success_payload, and the       *)
(* polling of the external job by the synchronous endpoint                 *)
(* (poll_until_done, transcribe_cabildo).                                  *)
(*                                                                         *)
(* Texts are TLA+ strings and are handled character by character, as the   *)
(* Python code handles them: a position is a 1-based index into the        *)
(* string, SubSeq(s, i, i) is the character at position i.                 *)
(***************************************************************************)
EXTENDS Integers, Sequences, FiniteSets, TLC

(***************************************************************************)
(* State                                                                   *)
(***************************************************************************)
VARIABLES
  utterances,       \* raw_result['utterances'], the input list
  pc,               \* "extract", "format", "count", "done" or "error"; before
                    \* them "poll", "sleep", "returned", and "responded"
  i,                \* index (0-based) of the utterance being scanned
  patron,           \* index in PATRONES_CESION of the pattern to try next
  match,            \* result of the last re.search
  nombre_raw,       \* match.group(1).strip() of the last match
  valido,           \* result of the last call of _es_nombre_real
  speaker_mapping,  \* dict speaker -> name
  raw_result,       \* the keys build_success_payload has added to the payload
  error,            \* the exception raised, "" if none
  entities,         \* raw_result['entities'], the entity annotations
  job,              \* the JSON the external service answers for the transcript
  llamada           \* number of the transcript being served, from 1

\* what build_success_payload receives or never touches
entorno == << entities, job, llamada >>

vars == << utterances, pc, i, patron, match, nombre_raw, valido, speaker_mapping,
           raw_result, error, entities, job, llamada >>

(***************************************************************************)
(* Characters: str.lower(), str.strip(), str.split()                       *)
(***************************************************************************)
UpperLetters == "ABCDEFGHIJKLMNOPQRSTUVWXYZÁÉÍÓÚÑ"
LowerLetters == "abcdefghijklmnopqrstuvwxyzáéíóúñ"

\* the characters of a string, as a set
CharsOf(str) == { SubSeq(str, k, k) : k \in 1..Len(str) }

\* the characters \s matches (those that occur in the modelled texts)
Whitespace == {" ", "\t", "\n", "\r"}

\* str.lower() on one character
LowerChar(c) ==
  IF c \in CharsOf(UpperLetters)
    THEN LET k == CHOOSE k \in 1..Len(UpperLetters) : SubSeq(UpperLetters, k, k) = c
         IN  SubSeq(LowerLetters, k, k)
    ELSE c

\* str.lower()
RECURSIVE Lower(_)
Lower(s) == IF Len(s) = 0 THEN "" ELSE LowerChar(SubSeq(s, 1, 1)) \o Lower(Tail(s))

\* str.strip(): drop leading and trailing whitespace
RECURSIVE LStrip(_)
LStrip(s) == IF Len(s) > 0 /\ SubSeq(s, 1, 1) \in Whitespace THEN LStrip(Tail(s)) ELSE s
RECURSIVE RStrip(_)
RStrip(s) ==
  IF Len(s) > 0 /\ SubSeq(s, Len(s), Len(s)) \in Whitespace
    THEN RStrip(SubSeq(s, 1, Len(s) - 1)) ELSE s
Strip(s) == RStrip(LStrip(s))

\* the elements of a set of integers, in increasing order
Orden(set) ==
  [j \in 1..Cardinality(set) |->
     CHOOSE x \in set : Cardinality({ y \in set : y < x }) = j - 1]

\* str.split() without arguments: the maximal runs of non-whitespace
\* characters, in order.  A run begins at a non-whitespace character that
\* follows whitespace or begins the string, and ends likewise.
Split(s) ==
  LET nonws(k) == SubSeq(s, k, k) \notin Whitespace
      ini == Orden({ k \in 1..Len(s) : nonws(k) /\ (k = 1 \/ ~nonws(k - 1)) })
      fin == Orden({ k \in 1..Len(s) : nonws(k) /\ (k = Len(s) \/ ~nonws(k + 1)) })
  IN  [j \in 1..Len(ini) |-> SubSeq(s, ini[j], fin[j])]

(***************************************************************************)
(* Regular expressions, matched as Python's re does with re.IGNORECASE: a  *)
(* backtracking search that tries the alternatives in priority order.      *)
(* Match(r, s, pos) is the sequence of positions at which a match of r     *)
(* that starts at pos can end, in the order the engine tries them; its     *)
(* head is the match the engine takes when nothing after r fails.          *)
(***************************************************************************)
Unbounded == -1

Lit(str)       == [op |-> "lit", str |-> str]              \* literal text
Cls(chars)     == [op |-> "cls", chars |-> chars]          \* [...] or \s
Cat(rs)        == [op |-> "cat", rs |-> rs]                \* r1 r2 ...
Alt(rs)        == [op |-> "alt", rs |-> rs]                \* r1|r2|...
Rep(r, lo, hi) == [op |-> "rep", r |-> r, lo |-> lo, hi |-> hi]  \* r{lo,hi}, greedy
Opt(r)         == Rep(r, 0, 1)                             \* r?
Star(r)        == Rep(r, 0, Unbounded)                     \* r*
Plus(r)        == Rep(r, 1, Unbounded)                     \* r+

\* re.IGNORECASE: a character matches a class or a literal when it does so
\* up to case
InClass(c, chars) == LowerChar(c) \in { LowerChar(x) : x \in chars }

RECURSIVE Match(_, _, _)
RECURSIVE MatchAll(_, _, _, _)
RECURSIVE MatchCat(_, _, _, _)
RECURSIVE MatchAlt(_, _, _, _)
RECURSIVE MatchRep(_, _, _, _, _)

\* the matches of r from each of the positions starts[j..], in order
MatchAll(r, s, starts, j) ==
  IF j > Len(starts) THEN <<>>
  ELSE Match(r, s, starts[j]) \o MatchAll(r, s, starts, j + 1)

\* rs[k..] matched one after the other from each of the positions in ends
MatchCat(rs, k, s, ends) ==
  IF k > Len(rs) THEN ends
  ELSE MatchCat(rs, k + 1, s, MatchAll(rs[k], s, ends, 1))

\* rs[k], rs[k+1], ... tried in this order
MatchAlt(rs, k, s, pos) ==
  IF k > Len(rs) THEN <<>>
  ELSE Match(rs[k], s, pos) \o MatchAlt(rs, k + 1, s, pos)

\* greedy repetition: one more r first, stopping here last
MatchRep(r, lo, hi, s, pos) ==
  LET dec(n) == IF n = Unbounded THEN Unbounded ELSE IF n > 0 THEN n - 1 ELSE 0
      more   == IF hi = 0 THEN <<>>
                ELSE LET firsts == Match(r, s, pos)
                         rest(j) == MatchRep(r, dec(lo), dec(hi), s, firsts[j])
                         RECURSIVE all(_)
                         all(j) == IF j > Len(firsts) THEN <<>> ELSE rest(j) \o all(j + 1)
                     IN  all(1)
      stop   == IF lo = 0 THEN <<pos>> ELSE <<>>
  IN  more \o stop

Match(r, s, pos) ==
  CASE r.op = "lit" ->
         LET n == Len(r.str)
         IN  IF pos + n - 1 <= Len(s) /\ Lower(SubSeq(s, pos, pos + n - 1)) = Lower(r.str)
               THEN <<pos + n>> ELSE <<>>
    [] r.op = "cls" ->
         IF pos <= Len(s) /\ InClass(SubSeq(s, pos, pos), r.chars)
           THEN <<pos + 1>> ELSE <<>>
    [] r.op = "cat" -> MatchCat(r.rs, 1, s, <<pos>>)
    [] r.op = "alt" -> MatchAlt(r.rs, 1, s, pos)
    [] r.op = "rep" -> MatchRep(r.r, r.lo, r.hi, s, pos)

(***************************************************************************)
(* The cession patterns                                                    *)
(***************************************************************************)
S == Cls(Whitespace)                                           \* \s
Mayuscula == Cls(CharsOf("ABCDEFGHIJKLMNOPQRSTUVWXYZÁÉÍÓÚÑ"))  \* [A-ZÁÉÍÓÚÑ]
Minuscula == Cls(CharsOf("abcdefghijklmnopqrstuvwxyzáéíóúñ"))  \* [a-záéíóúñ]

\* w1|w2|... for literal words
Lits(ws) == Alt([k \in 1..Len(ws) |-> Lit(ws[k])])

\* _NOM capturing a single word
NOM_una_palabra == Cat(<< Mayuscula, Plus(Minuscula) >>)

\* _NOM, the capturing group:
\* ([A-ZÁÉÍÓÚÑ][a-záéíóúñ]+(?:\s+(?:de\s+|del\s+|la\s+)?[A-ZÁÉÍÓÚÑ][a-záéíóúñ]+){0,3})
NOM ==
  Cat(<< Mayuscula, Plus(Minuscula),
         Rep(Cat(<< Plus(S),
                    Opt(Alt(<< Cat(<<Lit("de"), Plus(S)>>),
                               Cat(<<Lit("del"), Plus(S)>>),
                               Cat(<<Lit("la"), Plus(S)>>) >>)),
                    Mayuscula, Plus(Minuscula) >>), 0, 3) >>)

\* PATRONES_CESION: each entry is the part of the pattern before {_NOM};
\* the pattern is that part followed by NOM, its only group.
PATRONES_CESION == <<
  \* (?:hace?\s+uso\s+de\s+la\s+voz|uso\s+de\s+la\s+voz)\s+(?:de\s+)?(?:el|la)?\s*
  \* (?:regidor|...|profesora)?\s*
  Cat(<< Alt(<< Cat(<< Lit("hac"), Opt(Lit("e")), Plus(S), Lit("uso"), Plus(S), Lit("de"),
                       Plus(S), Lit("la"), Plus(S), Lit("voz") >>),
                Cat(<< Lit("uso"), Plus(S), Lit("de"), Plus(S), Lit("la"), Plus(S),
                       Lit("voz") >>) >>),
         Plus(S),
         Opt(Cat(<<Lit("de"), Plus(S)>>)),
         Opt(Lits(<<"el", "la">>)),
         Star(S),
         Opt(Lits(<< "regidor", "regidora", "síndico", "síndica", "secretaria", "secretario",
                     "presidente", "presidenta", "ingeniero", "ingeniera", "licenciado",
                     "licenciada", "doctor", "doctora", "coordinadora", "director",
                     "directora", "profesor", "profesora" >>)),
         Star(S) >>),
  \* solicita?\s+(?:el\s+)?uso\s+de\s+(?:la\s+)?voz\s+(?:la|el)?\s*
  \* (?:regidor|regidora|síndico|síndica|secretaria|presidenta|presidente)?\s*
  Cat(<< Lit("solicit"), Opt(Lit("a")), Plus(S),
         Opt(Cat(<<Lit("el"), Plus(S)>>)),
         Lit("uso"), Plus(S), Lit("de"), Plus(S),
         Opt(Cat(<<Lit("la"), Plus(S)>>)),
         Lit("voz"), Plus(S),
         Opt(Lits(<<"la", "el">>)),
         Star(S),
         Opt(Lits(<< "regidor", "regidora", "síndico", "síndica", "secretaria",
                     "presidenta", "presidente" >>)),
         Star(S) >>),
  \* cede?\s+(?:la\s+)?palabra\s+(?:a|al|a\s+la)?\s*
  Cat(<< Lit("ced"), Opt(Lit("e")), Plus(S),
         Opt(Cat(<<Lit("la"), Plus(S)>>)),
         Lit("palabra"), Plus(S),
         Opt(Alt(<< Lit("a"), Lit("al"), Cat(<<Lit("a"), Plus(S), Lit("la")>>) >>)),
         Star(S) >>),
  \* (?:regidor|regidora)\s+(?:[A-ZÁÉÍÓÚÑ][a-záéíóúñ]+\s+)?
  Cat(<< Lits(<<"regidor", "regidora">>), Plus(S),
         Opt(Cat(<<Mayuscula, Plus(Minuscula), Plus(S)>>)) >>),
  \* (?:síndico|síndica)\s+(?:jurídico|jurídica|hacendario|hacendaria)\s+
  Cat(<< Lits(<<"síndico", "síndica">>), Plus(S),
         Lits(<<"jurídico", "jurídica", "hacendario", "hacendaria">>), Plus(S) >>),
  \* (?:ingeniero|ingeniera|licenciado|licenciada|doctor|doctora|profesor|profesora)\s+
  Cat(<< Lits(<< "ingeniero", "ingeniera", "licenciado", "licenciada", "doctor", "doctora",
                 "profesor", "profesora" >>), Plus(S) >>)
>>

NumPatrones == Len(PATRONES_CESION)

\* re.search(patron, text, re.IGNORECASE) followed by match.group(1):
\* the leftmost start at which the pattern matches, and there the first way,
\* in the engine's order, to match the prefix so that NOM matches after it.
NoMatch == [found |-> FALSE, group1 |-> ""]

RECURSIVE GroupAfter(_, _, _)
GroupAfter(txt, pres, j) ==
  IF j > Len(pres) THEN NoMatch
  ELSE LET ends == Match(NOM, txt, pres[j])
       IN  IF ends # <<>>
             THEN [found |-> TRUE, group1 |-> SubSeq(txt, pres[j], Head(ends) - 1)]
             ELSE GroupAfter(txt, pres, j + 1)

RECURSIVE SearchFrom(_, _, _)
SearchFrom(pat, txt, start) ==
  IF start > Len(txt) + 1 THEN NoMatch
  ELSE LET m == GroupAfter(txt, Match(pat, txt, start), 1)
       IN  IF m.found THEN m ELSE SearchFrom(pat, txt, start + 1)

re_search(pat, txt) == SearchFrom(pat, txt, 1)

(***************************************************************************)
(* The lexicons and the name validator                                     *)
(***************************************************************************)
STOP_WORDS == {
  "municipal", "constitucional", "general", "jurídico", "jurídica",
  "hacendario", "hacendaria", "ordinaria", "extraordinaria", "honorable",
  "secretaria", "secretario", "para", "que", "los", "las", "del", "de",
  "la", "el", "comentar", "informar", "brindar", "sugiere", "propone",
  "comenta", "señora", "señor", "ciudadana", "ciudadano", "este", "esta",
  "iniciativa", "reglamento", "sesión", "cabildo", "agua", "potable",
  "organismo", "administración", "comisión", "fraccionamientos", "cargo",
  "carácter", "efecto", "objeto", "manera", "forma", "parte", "caso",
  "orden", "día", "punto", "acta", "anterior", "lectura", "siguiente",
  "presente", "presidenta", "presidente", "moderadora", "moderador" }

APELLIDOS == {
  "García", "González", "Hernández", "López", "Martínez", "Pérez",
  "Ramírez", "Rodríguez", "Sánchez", "Torres", "Flores", "Rivera",
  "Gómez", "Díaz", "Reyes", "Cruz", "Morales", "Jiménez", "Gutiérrez",
  "Chávez", "Medrano", "Miranda", "Tobar", "Mendoza", "Velázquez",
  "Cornejo", "Larios", "Altamirano", "Godínez", "Ayala", "Salazar",
  "Ángeles", "Hurtado", "Monterrubio", "Zelayno", "Fuentes", "Cortés",
  "Quadrini", "Medina", "León", "Celerino", "Fernández" }

NOMBRES_PROPIOS == {
  "Jocelyn", "María", "Isabel", "Jaime", "Eugenio", "Rosario", "Jesús",
  "Arturo", "Jennifer", "César", "Belinda", "Edgar", "Lisette", "Fidel",
  "Sadi", "Yanis", "Melitón", "Adelir", "Rubí", "Eva", "Marta", "Delia",
  "Osvaldo", "Antonio", "Enrique", "Juan", "Alberto", "José", "Manuel",
  "Yeri", "Axili", "Aksidy", "Paola", "Rogelio", "Fernanda", "Higinio" }

\* _es_nombre_real without the stopword test
es_nombre_real_sin_stopwords(texto) ==
  LET palabras == Split(Strip(texto))
      idx      == 1..Len(palabras)
  IN  IF Len(palabras) > 5 \/ Len(palabras) = 0 THEN FALSE
      ELSE (\E k \in idx : palabras[k] \in APELLIDOS)
             \/ (\E k \in idx : palabras[k] \in NOMBRES_PROPIOS)

\* _es_nombre_real without the limit of five words
es_nombre_real_sin_limite(texto) ==
  LET palabras == Split(Strip(texto))
      idx      == 1..Len(palabras)
  IN  IF \E k \in idx : Lower(palabras[k]) \in STOP_WORDS THEN FALSE
      ELSE (\E k \in idx : palabras[k] \in APELLIDOS)
             \/ (\E k \in idx : palabras[k] \in NOMBRES_PROPIOS)

\* _es_nombre_real(texto)
es_nombre_real(texto) ==
  LET palabras == Split(Strip(texto))
      idx      == 1..Len(palabras)
  IN  IF Len(palabras) > 5 \/ Len(palabras) = 0 THEN FALSE
      ELSE IF \E k \in idx : Lower(palabras[k]) \in STOP_WORDS THEN FALSE
      ELSE LET tiene_apellido == \E k \in idx : palabras[k] \in APELLIDOS
               tiene_nombre   == \E k \in idx : palabras[k] \in NOMBRES_PROPIOS
           IN  tiene_apellido \/ tiene_nombre

(***************************************************************************)
(* Inputs: the utterance lists an attribution pass is run on               *)
(***************************************************************************)
MaxUtterances == 3

Speakers == {"A", "B"}

Texts == {
  "cede la palabra a Juan Pérez",
  "cede la palabra a Juan",
  "cede la palabra a Juan Pérez para que comente",
  "buenas tardes a todos",
  "hace uso de la voz la Secretaria General",
  "cede la palabra a Pedro Infante",
  "cede la palabra a Juan, doctor Juan Pérez",
  "cede la palabra a Juan Pérez, doctor Juan",
  "el doctor Jaime Torres Cruz cede la palabra a Juan Pérez",
  "cede la palabra a Juan de Pérez de García de López" }

\* an utterance is a dict; a key the dict lacks is outside its DOMAIN
Utterances == [speaker : Speakers, text : Texts]

\* a smaller set of texts, with two names of equal length
TextosBreves == {
  "cede la palabra a Juan Pérez",
  "cede la palabra a Juan Gómez",
  "cede la palabra a Juan",
  "cede la palabra a Juan Pérez, doctor Juan Gómez",
  "hace uso de la voz la Secretaria General",
  "buenas tardes a todos" }

UtterancesBreves == [speaker : Speakers, text : TextosBreves]

MalformedTexts ==
  { "cede la palabra a Juan Pérez", "buenas tardes a todos",
    "hace uso de la voz la Secretaria General" }

MalformedUtterances ==
  [speaker : Speakers, text : MalformedTexts] \cup [speaker : Speakers]
    \cup [text : MalformedTexts]

ListsOf(us) == UNION { [1..n -> us] : n \in 0..MaxUtterances }

\* the texts and the names the formatter alone is run on
TextosFormatter == { "", "buenas tardes a todos", "cede la palabra a Juan Pérez" }

NombresFormatter == { "Juan Pérez", "Eva" }

\* the spans the validator alone is run on: the sequences of at most
\* MaxPalabras words of PalabrasValidador, separated by one space
MaxPalabras == 6

PalabrasValidador == {"Pérez", "Pedro", "Señor"}

RECURSIVE Unir(_)
Unir(ws) == IF Len(ws) = 0 THEN "" ELSE IF Len(ws) = 1 THEN ws[1] ELSE ws[1] \o " " \o Unir(Tail(ws))

Spans == { Unir(ws) : ws \in UNION { [1..n -> PalabrasValidador] : n \in 0..MaxPalabras } }

\* dict.get(key, default)
Get(d, key, default) == IF key \in DOMAIN d THEN d[key] ELSE default

AllTexts == Texts \cup TextosBreves \cup {""}

\* the function with domain dom that maps x to f[x], every value computed
\* when the table is built
RECURSIVE Tabla(_, _)
Tabla(f, dom) ==
  IF dom = {} THEN <<>>
  ELSE LET x == CHOOSE x \in dom : TRUE
       IN  (x :> f[x]) @@ Tabla(f, dom \ {x})

\* re.search of every pattern on every text of the inputs, computed once
Busqueda ==
  Tabla([t \in AllTexts |->
           Tabla([p \in 1..NumPatrones |-> re_search(PATRONES_CESION[p], t)],
                 1..NumPatrones)],
        AllTexts)

\* nombre_raw = match.group(1).strip(), for every match there is
Capturas ==
  { Strip(Busqueda[t][p].group1) : t \in AllTexts, p \in 1..NumPatrones }

\* _es_nombre_real of every captured name, computed once
NombreReal == Tabla([n \in Capturas |-> es_nombre_real(n)], Capturas)

\* The string s of a state variable, for reading its characters.  TLC
\* identifies a string stored in a state by its name and does not keep every
\* character of it (those outside ASCII are lost when the state is written
\* out), so the characters are read from the equal string of the set
\* cadenas of declared strings.  Str(s, cadenas) = s for s in cadenas.
Str(s, cadenas) == CHOOSE t \in cadenas : t = s

\* the texts of the utterances and the names of the mappings of all inputs
TextosPosibles == AllTexts \cup TextosFormatter

NombresPosibles == Capturas \cup NombresFormatter

(***************************************************************************)
(* Helpers of the speaker mapper and of the formatter                      *)
(***************************************************************************)
\* utterances[i], with Python's 0-based index
At(us, n) == us[n + 1]

\* d[key] = value
Put(d, key, value) == [x \in DOMAIN d \cup {key} |-> IF x = key THEN value ELSE d[x]]

NoTarget == -1

\* the last utterance attributing to its own speaker
Siguiente_sin_limite(us, n) == IF n + 1 < Len(us) THEN n + 1 ELSE n

\* the names going to the speaker who pronounced them
Siguiente_actual(us, n) == IF n + 1 < Len(us) THEN n ELSE NoTarget

\* "if i + 1 < len(utterances)": the index of the utterance whose speaker
\* receives the names found in utterance n, NoTarget for the last utterance
Siguiente(us, n) == IF n + 1 < Len(us) THEN n + 1 ELSE NoTarget

\* the last candidate wins, whatever its length
Preferir_ultimo(mapping, next_speaker, nombre) == TRUE

\* a shorter candidate replaces the name
Preferir_mas_corto(mapping, next_speaker, nombre) ==
  IF next_speaker \notin DOMAIN mapping THEN TRUE
  ELSE Len(nombre) < Len(mapping[next_speaker])

\* a candidate of equal length also replaces the name
Preferir_no_estricto(mapping, next_speaker, nombre) ==
  IF next_speaker \notin DOMAIN mapping THEN TRUE
  ELSE Len(nombre) >= Len(mapping[next_speaker])

\* "next_speaker not in speaker_mapping or
\*  len(nombre_raw) > len(speaker_mapping[next_speaker])"
\* ("or" evaluates its right side only when the left side is false)
Preferir(mapping, next_speaker, nombre) ==
  IF next_speaker \notin DOMAIN mapping THEN TRUE
  ELSE Len(nombre) > Len(mapping[next_speaker])

\* the bare speaker id as the default label
Etiqueta_sin_prefijo(mapping, speaker_id) ==
  IF speaker_id \in DOMAIN mapping THEN Str(mapping[speaker_id], NombresPosibles)
  ELSE speaker_id

\* speaker_mapping.get(speaker_id, f"Speaker {speaker_id}")
Etiqueta(mapping, speaker_id) ==
  IF speaker_id \in DOMAIN mapping THEN Str(mapping[speaker_id], NombresPosibles)
  ELSE "Speaker " \o speaker_id

\* f"{speaker_name}: {text}" for one utterance
Linea(u, mapping) ==
  Etiqueta(mapping, Get(u, "speaker", "?")) \o ": " \o Str(Get(u, "text", ""), TextosPosibles)

\* sep.join(lines)
RECURSIVE Join(_, _)
Join(sep, lines) ==
  IF Len(lines) = 0 THEN ""
  ELSE IF Len(lines) = 1 THEN lines[1]
  ELSE lines[1] \o sep \o Join(sep, Tail(lines))

\* the entries joined by a single newline
format_transcript_una_linea(us, mapping) ==
  Join("\n", [k \in 1..Len(us) |-> Linea(us[k], mapping)])

format_transcript_with_speakers(us, mapping) ==
  Join("\n\n", [k \in 1..Len(us) |-> Linea(us[k], mapping)])

\* the number of utterances instead of the number of distinct speakers
ContarSpeakers_sin_set(us) == Len(us)

\* len(set(u['speaker'] for u in utterances)), all speakers present
ContarSpeakers(us) == Cardinality({ us[k].speaker : k \in 1..Len(us) })

\* state at the call of build_success_payload, before the first utterance
Start ==
  /\ pc = "extract"
  /\ i = 0
  /\ patron = 1
  /\ match = NoMatch
  /\ nombre_raw = ""
  /\ valido = FALSE
  /\ speaker_mapping = <<>>
  /\ raw_result = <<>>
  /\ error = ""
  /\ entities = <<>>
  /\ job = [status |-> "completed"]
  /\ llamada = 1

Init == utterances \in ListsOf(Utterances) /\ Start

InitMalformed == utterances \in ListsOf(MalformedUtterances) /\ Start

InitBreve == utterances \in ListsOf(UtterancesBreves) /\ Start

(***************************************************************************)
(* extract_speaker_names_from_entities: one step per utterance and pattern *)
(***************************************************************************)
\* text = utterance.get('text', '')
text == Get(At(utterances, i), "text", "")

\* a capture counting only when an entity annotation of a person has its text
Encontrado_con_entities ==
  IF entities = <<>> THEN Busqueda[text][patron]
  ELSE IF \E n \in 1..Len(entities) :
            /\ entities[n].entity_type = "person_name"
            /\ entities[n].text = Strip(Busqueda[text][patron].group1)
         THEN Busqueda[text][patron]
         ELSE NoMatch

\* re.search(patron, text, re.IGNORECASE)
Encontrado == Busqueda[text][patron]

InLoop == pc = "extract" /\ i < Len(utterances)

\* a "break" after the first pattern that matches
Avanza_break ==
  IF patron < NumPatrones /\ ~Encontrado.found
    THEN patron' = patron + 1 /\ i' = i
    ELSE patron' = 1 /\ i' = i + 1

\* "continue", or the end of the body: the next pattern, or the first
\* pattern of the next utterance
Avanza ==
  IF patron < NumPatrones
    THEN patron' = patron + 1 /\ i' = i
    ELSE patron' = 1 /\ i' = i + 1

\* "if not match: continue"
SinMatch ==
  /\ InLoop
  /\ ~Encontrado.found
  /\ match' = Encontrado
  /\ Avanza
  /\ UNCHANGED << entorno, utterances, pc, nombre_raw, valido, speaker_mapping, raw_result, error >>

\* "if not _es_nombre_real(nombre_raw): continue"
Rechazado ==
  /\ InLoop
  /\ Encontrado.found
  /\ ~NombreReal[Strip(Encontrado.group1)]
  /\ match' = Encontrado
  /\ nombre_raw' = Strip(Encontrado.group1)
  /\ valido' = FALSE
  /\ Avanza
  /\ UNCHANGED << entorno, utterances, pc, speaker_mapping, raw_result, error >>

\* a valid name found in the last utterance: "if i + 1 < len(utterances)" fails
SinSiguiente ==
  /\ InLoop
  /\ Encontrado.found
  /\ NombreReal[Strip(Encontrado.group1)]
  /\ Siguiente(utterances, i) = NoTarget
  /\ match' = Encontrado
  /\ nombre_raw' = Strip(Encontrado.group1)
  /\ valido' = TRUE
  /\ Avanza
  /\ UNCHANGED << entorno, utterances, pc, speaker_mapping, raw_result, error >>

\* a valid name, and the next speaker has no name or a shorter one:
\* "speaker_mapping[next_speaker] = nombre_raw"
Asigna ==
  /\ InLoop
  /\ Encontrado.found
  /\ NombreReal[Strip(Encontrado.group1)]
  /\ Siguiente(utterances, i) # NoTarget
  /\ "speaker" \in DOMAIN At(utterances, Siguiente(utterances, i))
  /\ LET next_speaker == At(utterances, Siguiente(utterances, i)).speaker
     IN  /\ Preferir(speaker_mapping, next_speaker, Strip(Encontrado.group1))
         /\ speaker_mapping' = Put(speaker_mapping, next_speaker, Strip(Encontrado.group1))
  /\ match' = Encontrado
  /\ nombre_raw' = Strip(Encontrado.group1)
  /\ valido' = TRUE
  /\ Avanza
  /\ UNCHANGED << entorno, utterances, pc, raw_result, error >>

\* a valid name, but the next speaker already has one at least as long
Conserva ==
  /\ InLoop
  /\ Encontrado.found
  /\ NombreReal[Strip(Encontrado.group1)]
  /\ Siguiente(utterances, i) # NoTarget
  /\ "speaker" \in DOMAIN At(utterances, Siguiente(utterances, i))
  /\ ~Preferir(speaker_mapping, At(utterances, Siguiente(utterances, i)).speaker,
               Strip(Encontrado.group1))
  /\ match' = Encontrado
  /\ nombre_raw' = Strip(Encontrado.group1)
  /\ valido' = TRUE
  /\ Avanza
  /\ UNCHANGED << entorno, utterances, pc, speaker_mapping, raw_result, error >>

\* a valid name, and utterances[i + 1]['speaker'] raises KeyError
SiguienteSinSpeaker ==
  /\ InLoop
  /\ Encontrado.found
  /\ NombreReal[Strip(Encontrado.group1)]
  /\ Siguiente(utterances, i) # NoTarget
  /\ "speaker" \notin DOMAIN At(utterances, Siguiente(utterances, i))
  /\ match' = Encontrado
  /\ nombre_raw' = Strip(Encontrado.group1)
  /\ valido' = TRUE
  /\ pc' = "error"
  /\ error' = "KeyError: 'speaker'"
  /\ UNCHANGED << entorno, utterances, i, patron, speaker_mapping, raw_result >>

\* "return speaker_mapping", after the last utterance
ExtractReturn ==
  /\ pc = "extract"
  /\ i >= Len(utterances)
  /\ pc' = "format"
  /\ UNCHANGED << entorno, utterances, i, patron, match, nombre_raw, valido, speaker_mapping,
                  raw_result, error >>

(***************************************************************************)
(* build_success_payload, after the extraction                             *)
(***************************************************************************)
\* the formatter writing its default label into the mapping
\* (speaker_mapping.setdefault instead of speaker_mapping.get)
Format_setdefault ==
  /\ pc = "format"
  /\ speaker_mapping' =
       [k \in DOMAIN speaker_mapping
                \cup { Get(utterances[n], "speaker", "?") : n \in 1..Len(utterances) } |->
          IF k \in DOMAIN speaker_mapping THEN speaker_mapping[k] ELSE "Speaker " \o k]
  /\ raw_result' =
       Put(Put(raw_result, "formatted_text",
               format_transcript_with_speakers(utterances, speaker_mapping)),
           "speaker_mapping", speaker_mapping')
  /\ pc' = "count"
  /\ UNCHANGED << entorno, utterances, i, patron, match, nombre_raw, valido, error >>

\* formatted_text = format_transcript_with_speakers(utterances, speaker_mapping)
\* raw_result['formatted_text'] = ...; raw_result['speaker_mapping'] = ...
Format ==
  /\ pc = "format"
  /\ raw_result' =
       Put(Put(raw_result, "formatted_text",
               format_transcript_with_speakers(utterances, speaker_mapping)),
           "speaker_mapping", speaker_mapping)
  /\ pc' = "count"
  /\ UNCHANGED << entorno, utterances, i, patron, match, nombre_raw, valido, speaker_mapping, error >>

\* raw_result['total_speakers'] = len(set(u['speaker'] for u in utterances))
\* return raw_result
Count ==
  /\ pc = "count"
  /\ \A k \in 1..Len(utterances) : "speaker" \in DOMAIN utterances[k]
  /\ raw_result' = Put(raw_result, "total_speakers", ContarSpeakers(utterances))
  /\ pc' = "done"
  /\ UNCHANGED << entorno, utterances, i, patron, match, nombre_raw, valido, speaker_mapping, error >>

\* u['speaker'] raises KeyError for an utterance without speaker
CountSinSpeaker ==
  /\ pc = "count"
  /\ ~(\A k \in 1..Len(utterances) : "speaker" \in DOMAIN utterances[k])
  /\ pc' = "error"
  /\ error' = "KeyError: 'speaker'"
  /\ UNCHANGED << entorno, utterances, i, patron, match, nombre_raw, valido, speaker_mapping,
                  raw_result >>

Next ==
  \/ SinMatch
  \/ Rechazado
  \/ SinSiguiente
  \/ Asigna
  \/ Conserva
  \/ ExtractReturn
  \/ Format
  \/ Count

Spec == Init /\ [][Next]_vars

(***************************************************************************)
(* _es_nombre_real on its own, applied to every span of Spans              *)
(***************************************************************************)
InitValidador ==
  /\ utterances = <<>>
  /\ pc = "validar"
  /\ i = 0
  /\ patron = 1
  /\ nombre_raw \in Spans
  /\ match = [found |-> TRUE, group1 |-> nombre_raw]
  /\ valido = FALSE
  /\ speaker_mapping = <<>>
  /\ raw_result = <<>>
  /\ error = ""
  /\ entities = <<>>
  /\ job = [status |-> "completed"]
  /\ llamada = 1

\* valido = _es_nombre_real(nombre_raw)
Valida ==
  /\ pc = "validar"
  /\ valido' = es_nombre_real(Str(nombre_raw, Spans))
  /\ pc' = "validado"
  /\ UNCHANGED << entorno, utterances, i, patron, match, nombre_raw, speaker_mapping, raw_result,
                  error >>

NextValidador == Valida

SpecValidador == InitValidador /\ [][NextValidador]_vars

(***************************************************************************)
(* format_transcript_with_speakers on its own, called through the step of  *)
(* build_success_payload that renders the transcript: any list of at most  *)
(* MaxUtterances utterances with a text of TextosFormatter and any mapping *)
(* of speakers to the names of NombresFormatter                            *)
(***************************************************************************)
MappingsFormatter == UNION { [D -> NombresFormatter] : D \in SUBSET Speakers }

InitFormatter ==
  /\ utterances \in ListsOf([speaker : Speakers, text : TextosFormatter])
  /\ speaker_mapping \in MappingsFormatter
  /\ pc = "format"
  /\ i = Len(utterances)
  /\ patron = 1
  /\ match = NoMatch
  /\ nombre_raw = ""
  /\ valido = FALSE
  /\ raw_result = <<>>
  /\ error = ""
  /\ entities = <<>>
  /\ job = [status |-> "completed"]
  /\ llamada = 1

NextFormatter == Format

SpecFormatter == InitFormatter /\ [][NextFormatter]_vars

\* build_success_payload on the lists of UtterancesBreves
SpecBreve == InitBreve /\ [][Next]_vars

\* entities = raw_result.get('entities', []): no list, or annotations of
\* persons and places that agree or not with the names pronounced
EntitiesPosibles ==
  { <<>>,
    << [entity_type |-> "person_name", text |-> "Juan Pérez"] >>,
    << [entity_type |-> "location", text |-> "Pachuca"],
       [entity_type |-> "person_name", text |-> "Juan"] >> }

InitEntities ==
  /\ utterances \in ListsOf(UtterancesBreves)
  /\ entities \in EntitiesPosibles
  /\ pc = "extract"
  /\ i = 0
  /\ patron = 1
  /\ match = NoMatch
  /\ nombre_raw = ""
  /\ valido = FALSE
  /\ speaker_mapping = <<>>
  /\ raw_result = <<>>
  /\ error = ""
  /\ job = [status |-> "completed"]
  /\ llamada = 1

\* build_success_payload on a raw_result with entity annotations
SpecEntities == InitEntities /\ [][Next]_vars

(***************************************************************************)
(* format_transcript_with_speakers called a second time with the same      *)
(* utterances and the same mapping, after the pass that built the mapping  *)
(***************************************************************************)
\* format_transcript_with_speakers(utterances, speaker_mapping), once more
FormatOtraVez ==
  /\ pc = "count"
  /\ raw_result' = Put(raw_result, "formatted_text",
                       format_transcript_with_speakers(utterances, speaker_mapping))
  /\ pc' = "formateado"
  /\ UNCHANGED << entorno, utterances, i, patron, match, nombre_raw, valido, speaker_mapping,
                  error >>

NextDosVeces ==
  \/ SinMatch
  \/ Rechazado
  \/ SinSiguiente
  \/ Asigna
  \/ Conserva
  \/ ExtractReturn
  \/ Format
  \/ FormatOtraVez

SpecDosVeces == InitBreve /\ [][NextDosVeces]_vars

(***************************************************************************)
(* build_success_payload called for one transcript after another, as the   *)
(* server does for successive requests                                     *)
(***************************************************************************)
MaxLlamadas == 2

\* the transcripts of the later requests: the same list again, or one of
\* these, which name nobody or give speaker B the short name "Juan"
OtrasTranscripciones ==
  { << [speaker |-> "A", text |-> "buenas tardes a todos"],
       [speaker |-> "B", text |-> "buenas tardes a todos"] >>,
    << [speaker |-> "A", text |-> "cede la palabra a Juan"],
       [speaker |-> "B", text |-> "buenas tardes a todos"] >> }

\* a mapping that outlives the call (a module-level dict)
OtraLlamada_sin_reset ==
  /\ pc = "done"
  /\ llamada < MaxLlamadas
  /\ llamada' = llamada + 1
  /\ utterances' \in {utterances} \cup OtrasTranscripciones
  /\ pc' = "extract"
  /\ i' = 0
  /\ patron' = 1
  /\ match' = NoMatch
  /\ nombre_raw' = ""
  /\ valido' = FALSE
  /\ raw_result' = <<>>
  /\ UNCHANGED << entities, job, error, speaker_mapping >>

\* the next call of build_success_payload, on a new raw_result: the locals
\* of the previous call are gone and "speaker_mapping: dict = {}" starts the
\* mapping again
OtraLlamada ==
  /\ pc = "done"
  /\ llamada < MaxLlamadas
  /\ llamada' = llamada + 1
  /\ utterances' \in {utterances} \cup OtrasTranscripciones
  /\ pc' = "extract"
  /\ i' = 0
  /\ patron' = 1
  /\ match' = NoMatch
  /\ nombre_raw' = ""
  /\ valido' = FALSE
  /\ speaker_mapping' = <<>>
  /\ raw_result' = <<>>
  /\ UNCHANGED << entities, job, error >>

NextDosLlamadas ==
  \/ Next
  \/ OtraLlamada

SpecDosLlamadas == InitBreve /\ [][NextDosLlamadas]_vars

(***************************************************************************)
(* poll_until_done and the rest of transcribe_cabildo: the external job    *)
(* answers a JSON document to every query                                  *)
(***************************************************************************)
TextosJob ==
  { "cede la palabra a Juan Pérez", "cede la palabra a Juan",
    "hace uso de la voz la Secretaria General" }

\* the documents of a finished job, with or without the key 'utterances'
JobsCompletados ==
  { [status |-> "completed", utterances |-> us] :
      us \in ListsOf([speaker : Speakers, text : TextosJob]) }
    \cup { [status |-> "completed"] }

\* the documents of a failed job, with or without the key 'error'
JobsFallidos == { [status |-> "error", error |-> "audio ilegible"], [status |-> "error"] }

\* a document without the key 'status', as for an unknown transcript
JobSinStatus == [error |-> "transcript not found"]

InitPoll ==
  /\ job \in { [status |-> "queued"], JobSinStatus }
  /\ utterances = <<>>
  /\ pc = "poll"
  /\ i = 0
  /\ patron = 1
  /\ match = NoMatch
  /\ nombre_raw = ""
  /\ valido = FALSE
  /\ speaker_mapping = <<>>
  /\ raw_result = <<>>
  /\ error = ""
  /\ entities = <<>>
  /\ llamada = 1

\* the external job goes on: queued, processing, then completed or error
JobAvanza ==
  /\ "status" \in DOMAIN job
  /\ job.status \in {"queued", "processing"}
  /\ job' \in ({ [status |-> "processing"] } \cup JobsCompletados \cup JobsFallidos) \ {job}
  /\ UNCHANGED << utterances, pc, i, patron, match, nombre_raw, valido, speaker_mapping,
                  raw_result, error, entities, llamada >>

\* status == 'completed': return {"status": "completed", "utterances": ...}
PollCompleted ==
  /\ pc = "poll"
  /\ "status" \in DOMAIN job
  /\ job.status = "completed"
  /\ raw_result' = [status |-> "completed"]
  /\ utterances' = Get(job, "utterances", <<>>)
  /\ entities' = Get(job, "entities", <<>>)
  /\ pc' = "returned"
  /\ UNCHANGED << i, patron, match, nombre_raw, valido, speaker_mapping, error, job, llamada >>

\* status == 'error': return {"status": "error", "error": ...}
PollError ==
  /\ pc = "poll"
  /\ "status" \in DOMAIN job
  /\ job.status = "error"
  /\ raw_result' = [status |-> "error", error |-> Get(job, "error", "Error desconocido")]
  /\ pc' = "returned"
  /\ UNCHANGED << entorno, utterances, i, patron, match, nombre_raw, valido,
                  speaker_mapping, error >>

\* a poll that returns the status it found instead of waiting
PollSleep_devuelve ==
  /\ pc = "poll"
  /\ "status" \in DOMAIN job
  /\ job.status \notin {"completed", "error"}
  /\ raw_result' = [status |-> "processing"]
  /\ pc' = "returned"
  /\ UNCHANGED << entorno, utterances, i, patron, match, nombre_raw, valido,
                  speaker_mapping, error >>

\* any other status: time.sleep(3)
PollSleep ==
  /\ pc = "poll"
  /\ "status" \in DOMAIN job
  /\ job.status \notin {"completed", "error"}
  /\ pc' = "sleep"
  /\ UNCHANGED << entorno, utterances, i, patron, match, nombre_raw, valido,
                  speaker_mapping, raw_result, error >>

\* time.sleep returns: "while True" queries again
Despierta ==
  /\ pc = "sleep"
  /\ pc' = "poll"
  /\ UNCHANGED << entorno, utterances, i, patron, match, nombre_raw, valido,
                  speaker_mapping, raw_result, error >>

\* result['status'] raises KeyError, caught by "except Exception" of
\* transcribe_cabildo, which answers 500
PollSinStatus ==
  /\ pc = "poll"
  /\ "status" \notin DOMAIN job
  /\ pc' = "error"
  /\ error' = "KeyError: 'status'"
  /\ UNCHANGED << entorno, utterances, i, patron, match, nombre_raw, valido,
                  speaker_mapping, raw_result >>

\* if raw['status'] == 'completed': result = build_success_payload(raw)
EndpointCompleted ==
  /\ pc = "returned"
  /\ raw_result.status = "completed"
  /\ pc' = "extract"
  /\ UNCHANGED << entorno, utterances, i, patron, match, nombre_raw, valido,
                  speaker_mapping, raw_result, error >>

\* else: result = raw; return jsonify(result), 200
EndpointOtro ==
  /\ pc = "returned"
  /\ raw_result.status # "completed"
  /\ pc' = "responded"
  /\ UNCHANGED << entorno, utterances, i, patron, match, nombre_raw, valido,
                  speaker_mapping, raw_result, error >>

\* the steps of poll_until_done
PollStep ==
  \/ PollCompleted
  \/ PollError
  \/ PollSleep
  \/ Despierta
  \/ PollSinStatus

NextPoll ==
  \/ JobAvanza
  \/ PollStep
  \/ EndpointCompleted
  \/ EndpointOtro
  \/ Next

SpecPoll == InitPoll /\ [][NextPoll]_vars

\* the request thread runs on: a query is answered and time.sleep returns;
\* nothing is assumed about the progress of the external job
SpecPollFair == SpecPoll /\ WF_vars(PollStep)

\* the same pass on lists whose records may lack 'speaker' or 'text'
NextMalformed ==
  \/ Next
  \/ SiguienteSinSpeaker
  \/ CountSinSpeaker

SpecMalformed == InitMalformed /\ [][NextMalformed]_vars

(***************************************************************************)
(* Properties                                                              *)
(***************************************************************************)
\* the words of a name, and the names of Capturas with a stopword
PalabrasDe(n) == Split(Strip(n))

TieneStopWord(n) == \E k \in 1..Len(PalabrasDe(n)) : Lower(PalabrasDe(n)[k]) \in STOP_WORDS

TieneLexico(n) ==
  \E k \in 1..Len(PalabrasDe(n)) : PalabrasDe(n)[k] \in APELLIDOS \cup NOMBRES_PROPIOS

CapturasConStopWord == { n \in Capturas : TieneStopWord(n) }

\* the extraction has returned
Extraido == pc \in {"format", "count", "done"}

\* the valid names that utterance j and pattern p yield for the speaker of
\* utterance j + 1 (utterances numbered from 1), over all j and p
CandidatosDe(us, k) ==
  { Strip(Busqueda[us[jp[1]].text][jp[2]].group1) :
      jp \in { c \in (1..(Len(us) - 1)) \X (1..NumPatrones) :
                 /\ us[c[1] + 1].speaker = k
                 /\ Busqueda[us[c[1]].text][c[2]].found
                 /\ NombreReal[Strip(Busqueda[us[c[1]].text][c[2]].group1)] } }

\* C1: at every step of the extraction, every name stored in speaker_mapping
\* is a captured span that _es_nombre_real accepted, and none of its words,
\* lower-cased, is a stopword.
C1_SoloNombresValidados ==
  \A k \in DOMAIN speaker_mapping :
    /\ speaker_mapping[k] \in Capturas
    /\ NombreReal[speaker_mapping[k]]
    /\ speaker_mapping[k] \notin CapturasConStopWord

\* C1 witness: a capture with a stopword ("Juan Pérez para que") has just been
\* rejected while the mapping already holds a name.
C1_Witness ==
  /\ match.found
  /\ nombre_raw \in CapturasConStopWord
  /\ TieneLexico(Str(nombre_raw, Capturas))
  /\ ~valido
  /\ DOMAIN speaker_mapping # {}

\* C2: after the extraction, a speaker has a name exactly when some valid
\* candidate targeted it, and that name is one of the candidates and has the
\* maximum length among them, whatever the order of discovery.
C2_GanaElMasLargo ==
  Extraido =>
    \A k \in Speakers :
      IF CandidatosDe(utterances, k) = {}
        THEN k \notin DOMAIN speaker_mapping
        ELSE /\ k \in DOMAIN speaker_mapping
             /\ speaker_mapping[k] \in CandidatosDe(utterances, k)
             /\ \A c \in CandidatosDe(utterances, k) : Len(c) <= Len(speaker_mapping[k])

\* C2 witness: "Juan" then "Juan Pérez" reached speaker A (patterns 3 and 6
\* of utterance 1) and "Juan Pérez" then "Juan" reached speaker B (patterns
\* 3 and 6 of utterance 2); both end at "Juan Pérez".
C2_Witness ==
  /\ pc = "done"
  /\ Len(utterances) = 3
  /\ utterances[1].text = "cede la palabra a Juan, doctor Juan Pérez"
  /\ utterances[2].text = "cede la palabra a Juan Pérez, doctor Juan"
  /\ utterances[2].speaker = "A"
  /\ utterances[3].speaker = "B"
  /\ speaker_mapping = [k \in {"A", "B"} |-> "Juan Pérez"]

Frase == "cede la palabra a Juan Pérez"

\* t contains f
Contiene(t, f) == \E pos \in 1..(Len(t) - Len(f) + 1) : SubSeq(t, pos, pos + Len(f) - 1) = f

TextosConFrase == { t \in Texts : Contiene(t, Frase) }

\* t begins with f, and f is followed by the end of t or by a character
\* that is neither whitespace nor a letter
EmpiezaCon(t, f) ==
  /\ Len(t) >= Len(f)
  /\ SubSeq(t, 1, Len(f)) = f
  /\ \/ Len(t) = Len(f)
     \/ SubSeq(t, Len(f) + 1, Len(f) + 1)
          \notin Whitespace \cup CharsOf(UpperLetters) \cup CharsOf(LowerLetters)

TextosFraseDelimitada == { t \in Texts : EmpiezaCon(t, Frase) }

EsCapitalizada(w) == SubSeq(w, 1, 1) \in CharsOf(UpperLetters)

SoloCapitalizadas(n) ==
  LET ws   == PalabrasDe(n)
      caps == { k \in 1..Len(ws) : EsCapitalizada(ws[k]) }
  IN  /\ \A k \in 1..Len(ws) : k \in caps \/ ws[k] \in {"de", "del", "la"}
      /\ Cardinality(caps) >= 1
      /\ Cardinality(caps) <= 4

CapturasCapitalizadas == { n \in Capturas : SoloCapitalizadas(n) }

\* C4 as stated: the span a cession pattern captures consists only of 1 to 4
\* words with a capital initial, optionally joined by the lower-case
\* connectors de/del/la; a word with a lower-case initial that is not a
\* connector is never part of it.
C4_CapturaSoloCapitalizadas ==
  match.found => match.group1 \in CapturasCapitalizadas

\* C5: a step on the last utterance of the list never changes speaker_mapping,
\* and the mapping of a list of at most one utterance is always empty.
C5_UltimoDescartado ==
  /\ [][ (pc = "extract" /\ i + 1 >= Len(utterances)) => speaker_mapping' = speaker_mapping ]_vars
  /\ [](Len(utterances) <= 1 => DOMAIN speaker_mapping = {})

\* C5 witness: the pattern just tried on the last utterance of a list of two
\* or more yielded a valid name, and the speaker of that last utterance has
\* no name.
C5_Witness ==
  /\ pc = "extract"
  /\ Len(utterances) >= 2
  /\ i = Len(utterances) - 1
  /\ patron > 1
  /\ Busqueda[text][patron - 1].found
  /\ match = Busqueda[text][patron - 1]
  /\ valido
  /\ At(utterances, i).speaker \notin DOMAIN speaker_mapping

\* C6: total_speakers is the number of speaker identifiers that occur in the
\* utterance list: 0 for the empty list, and never less than the number of
\* speakers that got a name.
C6_TotalSpeakers ==
  pc = "done" =>
    /\ raw_result.total_speakers
         = Cardinality({ s \in Speakers : \E k \in 1..Len(utterances) : utterances[k].speaker = s })
    /\ raw_result.total_speakers >= Cardinality(DOMAIN raw_result.speaker_mapping)
    /\ (utterances = <<>> => raw_result.total_speakers = 0)

\* C6 witness: three utterances of two speakers, one of which got a name.
C6_Witness ==
  /\ pc = "done"
  /\ Len(utterances) = 3
  /\ raw_result.total_speakers = 2
  /\ Cardinality(DOMAIN raw_result.speaker_mapping) = 1

\* no utterance text matches any cession pattern
SinCesion(us) ==
  \A k \in 1..Len(us) : \A p \in 1..NumPatrones : ~Busqueda[us[k].text][p].found

\* C7: when no utterance matches any cession pattern, speaker_mapping stays
\* empty and every rendered entry is "Speaker <id>: <text>".
C7_SinCesionSinNombres ==
  SinCesion(utterances) =>
    /\ DOMAIN speaker_mapping = {}
    /\ pc \in {"count", "done"} =>
         raw_result.formatted_text
           = Join("\n\n", [k \in 1..Len(utterances) |->
                             "Speaker " \o utterances[k].speaker \o ": "
                               \o Str(utterances[k].text, TextosPosibles)])

\* C7 witness: two speakers, no cession phrasing, transcript rendered.
C7_Witness ==
  /\ pc = "done"
  /\ Len(utterances) >= 2
  /\ SinCesion(utterances)
  /\ utterances[1].speaker # utterances[2].speaker
  /\ "formatted_text" \in DOMAIN raw_result

\* C8: _es_nombre_real returns true exactly when the span has 1 to 5 words,
\* none of them, lower-cased, is a stopword, and at least one is, as written,
\* a known surname or first name.
C8_ValidadorExacto ==
  pc = "validado" =>
    LET span == Str(nombre_raw, Spans)
    IN  valido <=> ( /\ Len(PalabrasDe(span)) >= 1
                     /\ Len(PalabrasDe(span)) <= 5
                     /\ ~TieneStopWord(span)
                     /\ TieneLexico(span) )

\* C8 witness: a span of 1 to 5 words without stopword and without lexicon
\* word has been rejected.
C8_Witness ==
  /\ pc = "validado"
  /\ Len(PalabrasDe(Str(nombre_raw, Spans))) \in 1..5
  /\ ~TieneStopWord(Str(nombre_raw, Spans))
  /\ ~TieneLexico(Str(nombre_raw, Spans))
  /\ ~valido

\* the entries of a transcript: the parts between the blank lines (the
\* separators "\n\n", which do not overlap in the transcripts rendered here)
Entradas(s) ==
  IF s = "" THEN <<>>
  ELSE LET seps == Orden({ k \in 1..(Len(s) - 1) : SubSeq(s, k, k + 1) = "\n\n" })
           ini(j) == IF j = 1 THEN 1 ELSE seps[j - 1] + 2
           fin(j) == IF j = Len(seps) + 1 THEN Len(s) ELSE seps[j] - 1
       IN  [j \in 1..(Len(seps) + 1) |-> SubSeq(s, ini(j), fin(j))]

\* C9: the transcript has one entry per utterance, in input order, separated
\* by blank lines; entry k is "<label>: <text>" with the mapped name of the
\* speaker as label, "Speaker <id>" if the speaker has no name; the empty list
\* renders the empty string.
C9_UnaEntradaPorUtterance ==
  pc = "count" =>
    LET entradas == Entradas(raw_result.formatted_text)
    IN  /\ Len(entradas) = Len(utterances)
        /\ \A k \in 1..Len(utterances) :
             entradas[k] =
               (IF utterances[k].speaker \in DOMAIN speaker_mapping
                  THEN Str(speaker_mapping[utterances[k].speaker], NombresPosibles)
                  ELSE "Speaker " \o utterances[k].speaker)
               \o ": " \o Str(utterances[k].text, TextosPosibles)
        /\ (utterances = <<>> => raw_result.formatted_text = "")

\* C9 witness: a rendered transcript of three utterances in which one
\* speaker has a name and another has none.
C9_Witness ==
  /\ pc = "count"
  /\ "formatted_text" \in DOMAIN raw_result
  /\ Len(utterances) = 3
  /\ \E k \in 1..3 : utterances[k].speaker \in DOMAIN speaker_mapping
  /\ \E k \in 1..3 : utterances[k].speaker \notin DOMAIN speaker_mapping

\* C10 as stated: when some utterance lacks its speaker or its text, the pass
\* fails: it neither renders a transcript nor returns a payload.
C10_RechazaMalformados ==
  (\E k \in 1..Len(utterances) : DOMAIN utterances[k] # {"speaker", "text"}) =>
    /\ "formatted_text" \notin DOMAIN raw_result
    /\ pc # "done"

\* C11: the formatter called twice with the same utterances and mapping gives
\* the same string both times, and no step of the extraction or of the
\* formatter changes the utterance list or its records, nor does a step of
\* the formatter change the mapping it receives.
C11_SinEfectos ==
  [][ /\ utterances' = utterances
      /\ (pc \in {"format", "count"} => speaker_mapping' = speaker_mapping)
      /\ (pc = "count" => raw_result'.formatted_text = raw_result.formatted_text) ]_vars

\* C11 witness: the second call has returned on a list of two or more
\* utterances with a speaker named and another one not.
C11_Witness ==
  /\ pc = "formateado"
  /\ Len(utterances) >= 2
  /\ DOMAIN speaker_mapping = {"B"}
  /\ \E k \in 1..Len(utterances) : utterances[k].speaker = "A"
  /\ \E k \in 1..Len(utterances) : utterances[k].speaker = "B"
  /\ raw_result.formatted_text = format_transcript_with_speakers(utterances, speaker_mapping)

\* the mapping after the first n pairs (utterance, pattern) of the two loops
\* over us, computed from us alone
RECURSIVE MapeoHasta(_, _)
MapeoHasta(us, n) ==
  IF n = 0 THEN <<>>
  ELSE LET previo == MapeoHasta(us, n - 1)
           j      == (n - 1) \div NumPatrones
           m      == Busqueda[Get(At(us, j), "text", "")][((n - 1) % NumPatrones) + 1]
           nombre == Strip(m.group1)
       IN  IF ~m.found THEN previo
           ELSE IF ~NombreReal[nombre] THEN previo
           ELSE IF Siguiente(us, j) = NoTarget THEN previo
           ELSE IF Preferir(previo, At(us, j + 1).speaker, nombre)
                  THEN Put(previo, At(us, j + 1).speaker, nombre)
                  ELSE previo

MapeoFinal(us) == MapeoHasta(us, Len(us) * NumPatrones)

\* the three keys of the payload, computed from us alone
PayloadDe(us) ==
  [ formatted_text  |-> format_transcript_with_speakers(us, MapeoFinal(us)),
    speaker_mapping |-> MapeoFinal(us),
    total_speakers  |-> ContarSpeakers(us) ]

\* C12: every call of build_success_payload starts its mapping empty, and the
\* speaker_mapping, formatted_text and total_speakers it returns are those
\* determined by its utterance list alone, whichever transcript was served
\* before (the same list or another one).
C12_Determinista ==
  /\ (pc = "extract" /\ i = 0 /\ patron = 1) => speaker_mapping = <<>>
  /\ pc = "done" => raw_result = PayloadDe(utterances)

\* C12 witness: the second call has returned for the transcript that gives
\* speaker B the name "Juan" (calls that gave B the longer "Juan Pérez" came
\* before it).
C12_Witness ==
  /\ llamada = 2
  /\ pc = "done"
  /\ utterances = << [speaker |-> "A", text |-> "cede la palabra a Juan"],
                     [speaker |-> "B", text |-> "buenas tardes a todos"] >>
  /\ raw_result.speaker_mapping = [k \in {"B"} |-> "Juan"]
  /\ raw_result.total_speakers = 2

\* C13: while utterances remain, every step of the extraction tries exactly
\* the pattern whose turn it is and moves to the next pattern of the list, or
\* from the last pattern to the first pattern of the next utterance, whatever
\* the outcome of the step (no match, rejection, assignment): the step makes
\* at most one capture, raises no error, and writes the name it found when it
\* is valid and preferred, whatever earlier patterns did; the extraction
\* returns only after the last pattern of the last utterance.
C13_TodosLosPatrones ==
  /\ [][ InLoop =>
           /\ pc' = "extract"
           /\ error' = ""
           /\ << i', patron' >> = IF patron < NumPatrones THEN << i, patron + 1 >>
                                                           ELSE << i + 1, 1 >>
           /\ match' = Busqueda[text][patron]
           /\ ( /\ match'.found
                /\ NombreReal[Strip(match'.group1)]
                /\ Siguiente(utterances, i) # NoTarget )
              => LET next_speaker == At(utterances, i + 1).speaker
                 IN  IF Preferir(speaker_mapping, next_speaker, Strip(match'.group1))
                       THEN speaker_mapping' =
                              Put(speaker_mapping, next_speaker, Strip(match'.group1))
                       ELSE speaker_mapping' = speaker_mapping ]_vars
  /\ [][ (pc = "extract" /\ pc' # "extract") =>
           (i = Len(utterances) /\ patron = 1 /\ pc' = "format") ]_vars
  /\ [](pc = "extract" => (patron \in 1..NumPatrones /\ i \in 0..Len(utterances)))

\* C13 witness: the capture of the first utterance was rejected, pattern 3
\* then gave "Juan" to the speaker of the third utterance, and pattern 6 of
\* the same utterance has just replaced it by "Juan Pérez".
C13_Witness ==
  /\ pc = "extract"
  /\ Len(utterances) = 3
  /\ i = 2
  /\ patron = 1
  /\ utterances[1].text = "hace uso de la voz la Secretaria General"
  /\ utterances[2].text = "cede la palabra a Juan, doctor Juan Pérez"
  /\ Busqueda[utterances[2].text][3].found
  /\ Strip(Busqueda[utterances[2].text][3].group1) = "Juan"
  /\ match.found
  /\ nombre_raw = "Juan Pérez"
  /\ speaker_mapping = [k \in {utterances[3].speaker} |-> "Juan Pérez"]

\* the pairs (utterance, pattern) of us, numbered from 0 in the order of the
\* two loops, that yield a valid name for speaker k, and the name of a pair
NombreEn(us, n) == Strip(Busqueda[At(us, n \div NumPatrones).text][(n % NumPatrones) + 1].group1)

PasosPara(us, k) ==
  { n \in 0..((Len(us) - 1) * NumPatrones - 1) :
      /\ Busqueda[At(us, n \div NumPatrones).text][(n % NumPatrones) + 1].found
      /\ NombreReal[NombreEn(us, n)]
      /\ At(us, (n \div NumPatrones) + 1).speaker = k }

\* the first pair for k whose name has the maximum length
PrimeroMasLargo(us, k) ==
  CHOOSE n \in PasosPara(us, k) :
    \A m \in PasosPara(us, k) :
      \/ Len(NombreEn(us, m)) < Len(NombreEn(us, n))
      \/ (Len(NombreEn(us, m)) = Len(NombreEn(us, n)) /\ n <= m)

\* C14: a step changes the name of a speaker who already has one only to a
\* strictly longer name; a valid candidate that is not longer than the
\* existing name leaves the mapping as it is; and after the extraction each
\* name is the first one processed (utterance order, then pattern order)
\* among the candidates of maximum length for that speaker.
C14_SoloEstrictamenteMasLargo ==
  /\ [][ \A k \in DOMAIN speaker_mapping :
           (k \in DOMAIN speaker_mapping' /\ speaker_mapping'[k] # speaker_mapping[k])
             => Len(speaker_mapping[k]) < Len(speaker_mapping'[k]) ]_vars
  /\ [][ ( /\ InLoop
           /\ Encontrado.found
           /\ NombreReal[Strip(Encontrado.group1)]
           /\ Siguiente(utterances, i) # NoTarget
           /\ At(utterances, i + 1).speaker \in DOMAIN speaker_mapping
           /\ Len(Strip(Encontrado.group1))
                <= Len(speaker_mapping[At(utterances, i + 1).speaker]) )
         => speaker_mapping' = speaker_mapping ]_vars
  /\ [](Extraido =>
          \A k \in DOMAIN speaker_mapping :
            /\ PasosPara(utterances, k) # {}
            /\ speaker_mapping[k] = NombreEn(utterances, PrimeroMasLargo(utterances, k)))

\* C14 witness: "Juan Gómez" reached speaker B first and "Juan Pérez", of the
\* same length, came from the next utterance: B keeps "Juan Gómez".
C14_Witness ==
  /\ pc = "done"
  /\ Len(utterances) = 3
  /\ utterances[1].text = "cede la palabra a Juan Gómez"
  /\ utterances[2].text = "cede la palabra a Juan Pérez"
  /\ utterances[2].speaker = "B"
  /\ utterances[3].speaker = "B"
  /\ Len("Juan Gómez") = Len("Juan Pérez")
  /\ speaker_mapping = [k \in {"B"} |-> "Juan Gómez"]

\* the keys of mapping despues that are new or whose name differs from antes
Escritas(antes, despues) ==
  { k \in DOMAIN despues : k \notin DOMAIN antes \/ despues[k] # antes[k] }

\* C15: a step on utterance i writes at most the entry of the speaker of
\* utterance i + 1, whoever spoke utterance i; so at every moment the keys of
\* the mapping are speakers of utterances of index 1 or more, and a speaker
\* who appears only at index 0 has no name.
C15_ClaveDelSiguiente ==
  /\ [][ Escritas(speaker_mapping, speaker_mapping') # {} =>
           /\ InLoop
           /\ i + 1 < Len(utterances)
           /\ Escritas(speaker_mapping, speaker_mapping') = { At(utterances, i + 1).speaker }
           /\ DOMAIN speaker_mapping' = DOMAIN speaker_mapping \cup { At(utterances, i + 1).speaker }
       ]_vars
  /\ [](DOMAIN speaker_mapping \subseteq { utterances[n].speaker : n \in 2..Len(utterances) })
  /\ [](\A k \in Speakers :
          (\A n \in 2..Len(utterances) : utterances[n].speaker # k)
            => k \notin DOMAIN speaker_mapping)

\* C15 witness: speaker A pronounced "cede la palabra a Juan Pérez" and also
\* spoke the next utterance, so A has the name; B, who spoke only the first
\* utterance and pronounced a name too, has none.
C15_Witness ==
  /\ pc = "done"
  /\ Len(utterances) = 3
  /\ utterances[1] = [speaker |-> "B", text |-> "cede la palabra a Juan"]
  /\ utterances[2] = [speaker |-> "A", text |-> "cede la palabra a Juan Pérez"]
  /\ utterances[3].speaker = "A"
  /\ speaker_mapping = [k \in {"A"} |-> "Juan Pérez"]

\* C16: from one step of the pass to the next, no speaker loses its entry and
\* the length of the name of a speaker never decreases.
C16_SoloCrece ==
  [][ /\ DOMAIN speaker_mapping \subseteq DOMAIN speaker_mapping'
      /\ \A k \in DOMAIN speaker_mapping :
           Len(speaker_mapping'[k]) >= Len(speaker_mapping[k]) ]_vars

\* C16 witness: speaker B got "Juan" from the first utterance, then the
\* longer "Juan Pérez" from pattern 3 of the second one, and pattern 6 of the
\* second utterance has just offered the shorter "Juan", which was not taken.
C16_Witness ==
  /\ pc = "extract"
  /\ Len(utterances) = 3
  /\ i = 2
  /\ patron = 1
  /\ utterances[1].text = "cede la palabra a Juan"
  /\ utterances[2].text = "cede la palabra a Juan Pérez, doctor Juan"
  /\ utterances[2].speaker = "B"
  /\ utterances[3].speaker = "B"
  /\ nombre_raw = "Juan"
  /\ valido
  /\ speaker_mapping = [k \in {"B"} |-> "Juan Pérez"]

\* C17: whatever the list of entity annotations (none, or annotations that
\* agree or disagree with the names pronounced), the mapping the extraction
\* returns, the formatted text and the number of speakers are those
\* determined by the utterances alone.
C17_EntitiesSinEfecto ==
  \A e \in EntitiesPosibles :
    entities = e =>
      /\ Extraido => speaker_mapping = MapeoFinal(utterances)
      /\ pc = "done" =>
           /\ raw_result.speaker_mapping = MapeoFinal(utterances)
           /\ raw_result.formatted_text
                = format_transcript_with_speakers(utterances, MapeoFinal(utterances))
           /\ raw_result.total_speakers = ContarSpeakers(utterances)

\* C17 witness: the only person annotated is "Juan Pérez", and speaker B
\* has received the name "Juan Gómez", which no annotation carries.
C17_Witness ==
  /\ pc = "done"
  /\ entities = << [entity_type |-> "person_name", text |-> "Juan Pérez"] >>
  /\ Len(utterances) = 2
  /\ utterances[1].text = "cede la palabra a Juan Gómez"
  /\ utterances[2].speaker = "B"
  /\ raw_result.speaker_mapping = [k \in {"B"} |-> "Juan Gómez"]

\* the job reports 'completed' or 'error'
JobFinal == "status" \in DOMAIN job /\ job.status \in {"completed", "error"}

\* poll_until_done is still querying or waiting
Consultando == pc \in {"poll", "sleep"}

\* C18 as stated: the polling ends only if the job has reported 'completed'
\* or 'error'.
C18_Original == ~Consultando => JobFinal

\* C18 amended: poll_until_done returns only on a report 'completed' or
\* 'error' and with that status; on any other status it sleeps and queries
\* again; it ends without returning, by the KeyError of result['status'],
\* only when the answer has no status; once the job reports 'completed' or
\* 'error' the polling ends; and the attribution runs only on a 'completed'
\* result, an 'error' result being answered as it is.
C18_PollHastaFinal ==
  /\ [](pc = "returned" => (JobFinal /\ raw_result.status = job.status))
  /\ [](pc = "error" => ("status" \notin DOMAIN job /\ raw_result = <<>>))
  /\ [](~Consultando /\ pc # "error" => JobFinal)
  /\ [][ (pc = "poll" /\ pc' # "poll" /\ "status" \in DOMAIN job /\ ~JobFinal)
           => (pc' = "sleep" /\ raw_result' = raw_result) ]_vars
  /\ [][ (pc = "sleep" /\ pc' # "sleep") => pc' = "poll" ]_vars
  /\ [](pc \in {"extract", "format", "count", "done"} =>
          (raw_result.status = "completed" /\ job.status = "completed"
             /\ utterances = Get(job, "utterances", <<>>)))
  /\ [](pc = "responded" =>
          (raw_result.status = "error" /\ job.status = "error"
             /\ DOMAIN raw_result = {"status", "error"}))
  /\ (JobFinal ~> ~Consultando)

\* C18 witness: the job completed with a transcript of two utterances and
\* the attribution has run on the result the polling returned.
C18_Witness ==
  /\ pc = "done"
  /\ job = [status |-> "completed",
            utterances |-> << [speaker |-> "A", text |-> "cede la palabra a Juan Pérez"],
                              [speaker |-> "B", text |-> "cede la palabra a Juan"] >>]
  /\ raw_result.status = "completed"
  /\ raw_result.speaker_mapping = [k \in {"B"} |-> "Juan Pérez"]
  /\ raw_result.total_speakers = 2
====
